---- MODULE Spec2Model ----
(***************************************************************************)
(* Cleanaway services pipeline: the pagination crawl (LinkExtractor), the  *)
(* detail scraper (DataScraper) and the transformer (DataProcessor), each  *)
(* stage a state machine over the table file it writes.                    *)
(***************************************************************************)
EXTENDS Integers, Sequences, FiniteSets, TLC

(* ---- bounds of the model ---- *)
MaxPages == 3
MaxCards == 2
MaxLinks == 3
MaxRows == 3

VARIABLES
    \* LinkExtractor (src/components/link_extractor.py)
    numPages,     \* length N of the listing chain served by the site
    cClear,       \* configs.clear_contents
    cpc,          \* "idle" | "init" | "fetching" | "done" | "failed"
    curPage,      \* page_url of the pending get_all_service_links call (chain index)
    pageNum,      \* page_num of the pending call
    fetchLog,     \* history: the httpx.get calls made, in order
    linkTable,    \* rows of the link table file
    linkStart,    \* history: rows of the link table when the stage was constructed
    cErr,         \* exception chain that reached the caller of the stage, outermost first
    \* DataScraper (src/components/data_scraper.py)
    sClear,       \* configs.clear_contents
    spc,          \* "idle" | "init" | "looping" | "done" | "failed"
    sLinks,       \* rows of the link table read by scrape_services
    sIdx,         \* number of loop iterations completed
    sFetchLog,    \* history: the detail pages requested, with what came back
    rawTable,     \* rows of the raw table file
    rawStart,     \* history: rows of the raw table when the loop started
    now,          \* wall clock, in seconds
    sErr,         \* exception chain that reached the caller of scrape_services
    \* DataProcessor (src/components/data_processor.py)
    tpc,          \* position in data_transformation, "done" or "failed"
    traw,         \* rows of the raw table file read by the run
    df,           \* the dataframe
    geoLog,       \* history: the geocoding requests made, with the answers
    cleaned,      \* rows of the cleaned table file
    tErr,         \* exception chain that reached the caller of the stage
    run,          \* 1 in the first run of the stage, 2 in a run that follows it
    prevGeo,      \* history: the geocoding log of the run before
    prevCleaned,  \* history: the cleaned table the run before wrote
    \* history of both table files
    linkBefore,   \* rows of the link table before LinkExtractor was constructed
    rawBefore,    \* rows of the raw table before DataScraper was constructed
    \* state and postcode of one address (data_processor.py, lines 64-75)
    apc,          \* "idle" | "start" | "extracted" | "normalised"
    aAddress,     \* the cell of the address column
    aState,       \* the cell of the state column
    aPostcode,    \* the cell of the postcode column
    \* the fan-out script (01_WEBSCRAPING/cleanaway_services_scraper.py)
    ppc,          \* position of __main__
    all_service_links, \* the module-level list of service urls
    all_services, \* the module-level list the workers append to
    workQueue,    \* work items the executor has queued, oldest first
    running,      \* per worker thread, the work item it runs (0: none)
    local,        \* per worker thread, the service_details it has built (<<>>: none)
    futures,      \* per work item, "pending", "done" or the exception it holds
    servicesCsv,  \* rows load_data wrote
    pErr          \* exception that ended __main__

crawlVars == <<numPages, cClear, cpc, curPage, pageNum, fetchLog, linkTable, linkStart, cErr,
               linkBefore>>
scrapeVars == <<sClear, spc, sLinks, sIdx, sFetchLog, rawTable, rawStart, now, sErr,
                rawBefore>>
rerunVars == <<run, prevGeo, prevCleaned>>
transformVars == <<tpc, traw, df, geoLog, cleaned, tErr, rerunVars>>
addressVars == <<apc, aAddress, aState, aPostcode>>
poolVars == <<ppc, all_service_links, all_services, workQueue, running, local, futures,
              servicesCsv, pErr>>
vars == <<crawlVars, scrapeVars, transformVars, addressVars, poolVars>>

(* ---- helpers ---- *)
SeqsUpTo(S, n) == UNION { [1..k -> S] : k \in 0..n }

IsPrefix(s, t) == Len(s) <= Len(t) /\ \A i \in 1..Len(s) : s[i] = t[i]

NoErr == <<>>

(* A write that opens the file in w mode and so drops what was there. *)
write_to_csv_truncating(file, data) == <<data>>

(***************************************************************************)
(* write_to_csv: opens the file in append mode and writes one row after    *)
(* what is there (the header only when the file is empty).                 *)
(***************************************************************************)
write_to_csv(file, data) == Append(file, data)

(* A constructor that leaves the output file as it is. *)
ClearNever(clear, file) == file

(* __init__ of both stages: truncate the output file when clear_contents. *)
ClearIfConfigured(clear, file) == IF clear THEN <<>> ELSE file

(***************************************************************************)
(*                       LinkExtractor: the crawl                          *)
(***************************************************************************)

(* A listing card: "good" carries a, h2 and div.location-info__text;       *)
(* "bad" lacks one of them, so css_first(...) is None there.               *)
CardKinds == {"good", "bad"}

(* What httpx.get can do for a listing page. *)
\* "ok": status 200 with the page; "status": an error status with an error
\* body (no cards, no pagination); "transport": httpx.get raises.
FetchOutcomes == {"ok", "status", "transport"}

(* Body of page k of a chain of n pages as served with the given outcome. *)
PageBody(k, n, outcome, cards) ==
    IF outcome = "ok"
    THEN [cards |-> cards, hasNext |-> k < n]
    ELSE [cards |-> <<>>, hasNext |-> FALSE]

(* A row whose page number is never increased. *)
LinkRecordPageOne(pg_no, pg_url, j) ==
    [page_number |-> 1, page_url |-> pg_url, service_url |-> <<pg_url, j>>,
     service_name |-> "name", service_address |-> "addr"]

LinkRecord(pg_no, pg_url, j) ==
    [page_number |-> pg_no, page_url |-> pg_url, service_url |-> <<pg_url, j>>,
     service_name |-> "name", service_address |-> "addr"]

(* Index of the first card whose extraction raises, 0 when none does. *)
FirstBadCard(cards) ==
    IF \E j \in 1..Len(cards) : cards[j] = "bad"
    THEN CHOOSE j \in 1..Len(cards) :
            cards[j] = "bad" /\ \A i \in 1..(j-1) : cards[i] = "good"
    ELSE 0

(* Rows get_urls has written when it returns or raises: one per card, in
   page order, up to the first card that raises. *)
RECURSIVE WriteCards(_, _, _, _, _)
WriteCards(file, pg_no, pg_url, j, upto) ==
    IF j > upto THEN file
    ELSE WriteCards(write_to_csv(file, LinkRecord(pg_no, pg_url, j)),
                    pg_no, pg_url, j + 1, upto)

(* A crawl that follows the wrong link: it skips a page. *)
NextPageSkips(content, pg_url) == pg_url + 2

(* urljoin(root_url, next_page_element.attrs["href"]): the following page *)
NextPageUrl(content, pg_url) == pg_url + 1

TransformIdle ==
    /\ tpc = "idle" /\ traw = <<>> /\ df = <<>> /\ geoLog = <<>>
    /\ cleaned = <<>> /\ tErr = NoErr
    /\ run = 1 /\ prevGeo = <<>> /\ prevCleaned = <<>>

AddressIdle ==
    /\ apc = "idle" /\ aAddress = <<>> /\ aState = <<>> /\ aPostcode = <<>>

PoolIdle ==
    /\ ppc = "idle" /\ all_service_links = <<>> /\ all_services = <<>>
    /\ workQueue = <<>> /\ running = <<>> /\ local = <<>> /\ futures = <<>>
    /\ servicesCsv = <<>> /\ pErr = NoErr

ScrapeIdle ==
    /\ sClear = FALSE /\ spc = "idle" /\ sLinks = <<>> /\ sIdx = 0
    /\ sFetchLog = <<>> /\ rawTable = <<>> /\ rawStart = <<>> /\ now = 0
    /\ sErr = NoErr /\ rawBefore = <<>>

CrawlInit ==
    /\ numPages \in 1..MaxPages
    /\ cClear \in BOOLEAN
    /\ linkTable \in {<<>>, <<LinkRecord(1, 0, 1)>>}
    /\ linkStart = linkTable
    /\ linkBefore = linkTable
    /\ cpc = "init"
    /\ curPage = 1
    /\ pageNum = 1
    /\ fetchLog = <<>>
    /\ cErr = NoErr
    /\ ScrapeIdle
    /\ TransformIdle
    /\ AddressIdle
    /\ PoolIdle

(* LinkExtractor.__init__ followed by scrape_service_links' first call. *)
LinkExtractorInit ==
    /\ cpc = "init"
    /\ linkTable' = ClearIfConfigured(cClear, linkTable)
    /\ linkStart' = linkTable'
    /\ cpc' = "fetching"
    /\ UNCHANGED <<numPages, cClear, curPage, pageNum, fetchLog, cErr, linkBefore>>
    /\ UNCHANGED <<scrapeVars, transformVars, addressVars, poolVars>>

(* One call of get_all_service_links(page_url, page_num) up to its
   recursive call or its return; exceptions reach DataExtractionPipeline.main,
   which wraps them in CustomException and re-raises. *)
GetAllServiceLinks(outcome, cards) ==
    /\ cpc = "fetching"
    /\ curPage <= MaxPages + 1
    /\ fetchLog' = Append(fetchLog, [page |-> curPage, outcome |-> outcome,
                                     badCard |-> FirstBadCard(cards) # 0 /\ outcome = "ok"])
    /\ IF outcome = "transport"
       THEN \* httpx.get raises before the try block of get_urls
            /\ cpc' = "failed"
            /\ cErr' = <<"CustomException", "TransportError">>
            /\ UNCHANGED <<linkTable, curPage, pageNum>>
       ELSE LET content == PageBody(curPage, numPages, outcome, cards)
                bad == FirstBadCard(content.cards)
            IN  IF bad # 0
                THEN \* get_urls: except Exception -> raise CustomException(e)
                     /\ linkTable' = WriteCards(linkTable, pageNum, curPage, 1, bad - 1)
                     /\ cpc' = "failed"
                     /\ cErr' = <<"CustomException", "CustomException", "AttributeError">>
                     /\ UNCHANGED <<curPage, pageNum>>
                ELSE /\ linkTable' = WriteCards(linkTable, pageNum, curPage, 1,
                                                Len(content.cards))
                     /\ pageNum' = pageNum + 1
                     /\ IF content.hasNext
                        THEN /\ curPage' = NextPageUrl(content, curPage)
                             /\ cpc' = "fetching"
                        ELSE /\ curPage' = curPage
                             /\ cpc' = "done"
                     /\ cErr' = cErr
    /\ UNCHANGED <<numPages, cClear, linkStart, linkBefore>>
    /\ UNCHANGED <<scrapeVars, transformVars, addressVars, poolVars>>

CrawlStep ==
    \E outcome \in FetchOutcomes, cards \in SeqsUpTo(CardKinds, MaxCards) :
        GetAllServiceLinks(outcome, cards)

CrawlNext == LinkExtractorInit \/ CrawlStep

SpecCrawl == CrawlInit /\ [][CrawlNext]_vars

(* ---- claims about the crawl ---- *)

(* A fetch that served its page: status 200 and every card well formed. *)
Served(f) == f.outcome = "ok" /\ ~f.badCard

AllServed == \A i \in 1..Len(fetchLog) : Served(fetchLog[i])

(* C1: on a chain of N pages, each served with its "next page" link (none
   on page N), get_all_service_links fetches page 1, 2, ..., N in chain
   order, one fetch per page, is done exactly when page N has been fetched,
   and once done fetches nothing further. *)
C1_ChainFetchedOncePerPage ==
    /\ \A i \in 1..Len(fetchLog) : fetchLog[i].page = i
    /\ Len(fetchLog) <= numPages
    /\ AllServed => (cpc = "done" <=> Len(fetchLog) = numPages)
    /\ cpc = "done" => ~ENABLED CrawlNext

C1_Witness ==
    /\ cpc = "done" /\ AllServed
    /\ numPages = MaxPages /\ Len(fetchLog) = MaxPages

(* C2 as claimed: a fetch that met a transport error, a failed (non-2xx)
   response or a card that cannot be parsed is the last fetch of the crawl,
   the crawl is not DONE and the error has reached the caller. *)
C2_AnyListingFailureIsFatal ==
    \A i \in 1..Len(fetchLog) :
        ~Served(fetchLog[i]) =>
            /\ i = Len(fetchLog)
            /\ cpc = "failed"
            /\ cErr # NoErr

(***************************************************************************)
(*                    DataScraper: the detail scraper                      *)
(***************************************************************************)

(* Text is a sequence of characters.  A value of a Python variable or of a
   dataframe cell is null (None / NaN), a string or a number (a float, held
   in tenths). *)
Null == [k |-> "null", s |-> <<>>, n |-> 0]
Str(t) == [k |-> "str", s |-> t, n |-> 0]
Num(x) == [k |-> "num", s |-> <<>>, n |-> x]
IsNull(c) == c.k = "null"

(* csv.DictWriter writes None as the empty field and a string as itself. *)
CsvField(c) == IF c.k = "str" THEN c.s ELSE <<>>

CardName == <<"c", "n">>
CardAddr == <<"c", "a">>
H1Name == <<"h", "1">>
AnchorText == <<"a", "t">>
DescText == <<"A", ",", " ", "B", ",", "C">>
Miscellaneous == <<"M", "i", "s", "c", "e", "l", "l", "a", "n", "e", "o", "u", "s">>
HrefWithQ == <<"m", "?", "q", "=", "-", "3", "7", ".", "8", ",", "1", "4", "5", ".", "2">>
HrefNoQ == <<"m", "/", "x">>
OldUrl == <<"u", "0">>

\* lat_long_pattern.match(address_url): anything, the marker ?q=, group 1,
\* a comma, group 2.  The greedy prefix takes the last marker that still has
\* a comma after it, group 1 runs to the last comma and group 2 from there to
\* the end.  <<>> stands for no match.
LatLongMatch(url) ==
    LET n == Len(url)
        commas == { c \in 1..n : url[c] = "," }
        marks == { p \in 1..(n - 2) :
                     /\ url[p] = "?" /\ url[p + 1] = "q" /\ url[p + 2] = "="
                     /\ \E c \in commas : c > p + 2 }
    IN  IF marks = {} THEN <<>>
        ELSE LET p == CHOOSE x \in marks : \A y \in marks : y <= x
                 c == CHOOSE x \in commas : \A y \in commas : y <= x
             IN  <<SubSeq(url, p + 3, c - 1), SubSeq(url, c + 1, n)>>

(* The detail pages httpx.get can return: whether div.location-box h1 is
   there, the address anchor (absent, without href, or with a link target),
   whether the last info block has a description and what its title is. *)
AnchorKinds == {"absent", "nohref", "href"}
Titles == {"absent", "services", "other"}
Hrefs == {HrefWithQ, HrefNoQ}

ErrorPage == [h1 |-> FALSE, anchor |-> "absent", href |-> HrefNoQ,
              desc |-> FALSE, title |-> "absent"]

DetailPages ==
    { [h1 |-> TRUE, anchor |-> a, href |-> h, desc |-> d, title |-> t] :
        a \in AnchorKinds, h \in Hrefs, d \in BOOLEAN, t \in Titles }
    \cup {ErrorPage}

(* fetch(selector, output) for the selectors of get_service_details *)
FetchName(page) == IF page.h1 THEN Str(H1Name) ELSE Null
FetchAddressText(page) == IF page.anchor = "absent" THEN Null ELSE Str(AnchorText)
FetchAddressLink(page) == IF page.anchor = "href" THEN Str(page.href) ELSE Null
FetchDesc(page) == IF page.desc THEN Str(DescText) ELSE Null
FetchTitle(page) ==
    CASE page.title = "absent" -> Null
      [] page.title = "services" -> Str(<<"S", "e", "r", "v", "i", "c", "e", "s">>)
      [] OTHER -> Str(<<"H", "o", "u", "r", "s">>)

(* The exception the try block of get_service_details raises on this page,
   "none" when it reaches write_to_csv. *)
ExtractionError(page) ==
    CASE page.anchor = "nohref" -> "KeyError"
      [] page.anchor = "href" /\ LatLongMatch(page.href) = <<>> -> "AttributeError"
      [] page.desc /\ page.title = "absent" -> "TypeError"
      [] OTHER -> "none"

(* asdict(ServiceInfo(...)) as written by csv.DictWriter. *)
ServiceRow(page, link, ts) ==
    LET service_name == IF IsNull(FetchName(page)) THEN Str(link.service_name)
                        ELSE FetchName(page)
        service_address == IF IsNull(FetchAddressText(page))
                           THEN Str(link.service_address)
                           ELSE FetchAddressText(page)
        address_url == FetchAddressLink(page)
        m == IF IsNull(address_url) THEN <<>> ELSE LatLongMatch(address_url.s)
        lat == IF m = <<>> THEN Null ELSE Str(m[1])
        long == IF m = <<>> THEN Null ELSE Str(m[2])
        services_offered ==
            IF ~IsNull(FetchDesc(page))
            THEN (IF page.title = "services" THEN FetchDesc(page)
                  ELSE Str(Miscellaneous))
            ELSE Null
    IN  [service_name |-> CsvField(service_name),
         address |-> CsvField(service_address),
         latitude |-> CsvField(lat),
         longitude |-> CsvField(long),
         services_offered |-> CsvField(services_offered),
         details_url |-> link.service_url,
         scrape_ts |-> ts]

(* A scrape loop that logs a failed record and goes on to the next one. *)
SkipAndContinue == "looping"

(* get_service_details: except Exception -> raise CustomException(e); the
   loop of scrape_services has no handler, so the run ends there. *)
AfterExtractionError == "failed"

ScrapedLink(i) ==
    [page_number |-> 1, page_url |-> 1,
     service_url |-> <<"u", IF i % 2 = 1 THEN "1" ELSE "2">>,
     service_name |-> CardName, service_address |-> CardAddr]

OldRawRow ==
    [service_name |-> H1Name, address |-> AnchorText, latitude |-> <<>>,
     longitude |-> <<>>, services_offered |-> <<>>, details_url |-> OldUrl,
     scrape_ts |-> 0]

CrawlIdle ==
    /\ numPages = 1 /\ cClear = FALSE /\ cpc = "idle" /\ curPage = 1
    /\ pageNum = 1 /\ fetchLog = <<>> /\ linkTable = <<>> /\ linkStart = <<>>
    /\ cErr = NoErr /\ linkBefore = <<>>

ScrapeInit ==
    /\ sClear \in BOOLEAN
    /\ rawTable \in {<<>>, <<OldRawRow>>}
    /\ rawStart = rawTable
    /\ rawBefore = rawTable
    /\ sLinks \in { [i \in 1..n |-> ScrapedLink(i)] : n \in 0..MaxLinks }
    /\ spc = "init"
    /\ sIdx = 0
    /\ sFetchLog = <<>>
    /\ now = 1
    /\ sErr = NoErr
    /\ CrawlIdle
    /\ TransformIdle
    /\ AddressIdle
    /\ PoolIdle

(* DataScraper.__init__, then scrape_services up to its loop. *)
DataScraperInit ==
    /\ spc = "init"
    /\ rawTable' = ClearIfConfigured(sClear, rawTable)
    /\ rawStart' = rawTable'
    /\ spc' = "looping"
    /\ UNCHANGED <<sClear, sLinks, sIdx, sFetchLog, now, sErr, rawBefore>>
    /\ UNCHANGED <<crawlVars, transformVars, addressVars, poolVars>>

(* One iteration of the loop of scrape_services: get_service_details on
   the next LinkRecord, then the sleep. *)
ScrapeOne(transport, page) ==
    /\ spc = "looping"
    /\ sIdx < Len(sLinks)
    /\ LET link == sLinks[sIdx + 1]
           e == ExtractionError(page)
       IN  IF transport
           THEN \* httpx.get raises before the try block
                /\ sFetchLog' = Append(sFetchLog,
                                  [url |-> link.service_url, outcome |-> "transport"])
                /\ spc' = "failed"
                /\ sErr' = <<"TransportError">>
                /\ UNCHANGED <<rawTable, sIdx, now>>
           ELSE IF e # "none"
           THEN /\ sFetchLog' = Append(sFetchLog,
                                  [url |-> link.service_url, outcome |-> "extraction"])
                /\ spc' = AfterExtractionError
                /\ sErr' = <<"CustomException", e>>
                /\ sIdx' = IF spc' = "looping" THEN sIdx + 1 ELSE sIdx
                /\ UNCHANGED <<rawTable, now>>
           ELSE /\ sFetchLog' = Append(sFetchLog,
                                  [url |-> link.service_url, outcome |-> "row"])
                /\ rawTable' = write_to_csv(rawTable, ServiceRow(page, link, now))
                /\ sIdx' = sIdx + 1
                /\ now' = now + 1
                /\ UNCHANGED <<spc, sErr>>
    /\ UNCHANGED <<sClear, sLinks, rawStart, rawBefore>>
    /\ UNCHANGED <<crawlVars, transformVars, addressVars, poolVars>>

ScrapeStep ==
    \E transport \in BOOLEAN, page \in DetailPages : ScrapeOne(transport, page)

(* The loop of scrape_services is exhausted: the function returns. *)
ScrapeServicesReturn ==
    /\ spc = "looping"
    /\ sIdx = Len(sLinks)
    /\ spc' = "done"
    /\ UNCHANGED <<sClear, sLinks, sIdx, sFetchLog, rawTable, rawStart, now, sErr,
                   rawBefore>>
    /\ UNCHANGED <<crawlVars, transformVars, addressVars, poolVars>>

ScrapeNext == DataScraperInit \/ ScrapeStep \/ ScrapeServicesReturn

SpecScrape == ScrapeInit /\ [][ScrapeNext]_vars

(* ---- claims about the scrape loop ---- *)

(* Rows the run has added to the raw table. *)
RowsAdded == SubSeq(rawTable, Len(rawStart) + 1, Len(rawTable))

Completed == { i \in 1..Len(sFetchLog) : sFetchLog[i].outcome = "row" }

(* C3: at every point of a scrape_services run the rows added to the raw
   table (the whole table when it started empty) are exactly one per
   LinkRecord whose scrape has completed, in link-table order, the i-th with
   the i-th LinkRecord's service_url, duplicates included; a record is
   fetched only after the rows of all earlier records are in the table. *)
C3_OneRowPerCompletedRecord ==
    spc \in {"looping", "done", "failed"} =>
        /\ IsPrefix(rawStart, rawTable)
        /\ Len(RowsAdded) = Cardinality(Completed)
        /\ Len(RowsAdded) = sIdx
        /\ \A i \in 1..Len(RowsAdded) :
              /\ RowsAdded[i].details_url = sLinks[i].service_url
              /\ sFetchLog[i].outcome = "row"
              /\ sFetchLog[i].url = sLinks[i].service_url
        /\ Len(sFetchLog) <= Len(RowsAdded) + 1

C3_Witness ==
    /\ rawStart = <<>>
    /\ spc = "looping"
    /\ Len(rawTable) = 3
    /\ rawTable[1].details_url = rawTable[3].details_url
    /\ rawTable[1].details_url # rawTable[2].details_url

(* C4: once field extraction has raised for a record, that fetch is the
   last one of the run, the loop has ended in failure with the error
   (wrapped in CustomException) at the caller, no row stands for the failed
   record and the rows of the earlier records are still in the raw table. *)
C4_ExtractionErrorAbortsLoop ==
    \A i \in 1..Len(sFetchLog) :
        sFetchLog[i].outcome = "extraction" =>
            /\ i = Len(sFetchLog)
            /\ spc = "failed"
            /\ ~ENABLED ScrapeNext
            /\ Len(sErr) = 2 /\ sErr[1] = "CustomException"
            /\ Len(RowsAdded) = i - 1
            /\ \A j \in 1..(i - 1) :
                  RowsAdded[j].details_url = sLinks[j].service_url
            /\ IsPrefix(rawStart, rawTable)

C4_Witness ==
    /\ spc = "failed"
    /\ Len(sFetchLog) = 3
    /\ sFetchLog[3].outcome = "extraction"
    /\ Len(RowsAdded) = 2

(***************************************************************************)
(*                   DataProcessor: the transformer                        *)
(***************************************************************************)

Digits == {"0", "1", "2", "3", "4", "5", "6", "7", "8", "9"}
Upper == {"A", "B", "C", "D", "E", "F", "G", "H", "I", "J", "K", "L", "M",
          "N", "O", "P", "Q", "R", "S", "T", "U", "V", "W", "X", "Y", "Z"}

DigitVal(c) ==
    CASE c = "0" -> 0 [] c = "1" -> 1 [] c = "2" -> 2 [] c = "3" -> 3
      [] c = "4" -> 4 [] c = "5" -> 5 [] c = "6" -> 6 [] c = "7" -> 7
      [] c = "8" -> 8 [] c = "9" -> 9

DigitChar(d) ==
    CASE d = 0 -> "0" [] d = 1 -> "1" [] d = 2 -> "2" [] d = 3 -> "3"
      [] d = 4 -> "4" [] d = 5 -> "5" [] d = 6 -> "6" [] d = 7 -> "7"
      [] d = 8 -> "8" [] d = 9 -> "9"

(* str(n) of a non-negative integer *)
RECURSIVE NatToText(_)
NatToText(n) ==
    IF n < 10 THEN <<DigitChar(n)>>
    ELSE Append(NatToText(n \div 10), DigitChar(n % 10))

(* int(t) of a text of digits *)
RECURSIVE TextToNat(_)
TextToNat(t) ==
    IF Len(t) = 0 THEN 0
    ELSE 10 * TextToNat(SubSeq(t, 1, Len(t) - 1)) + DigitVal(t[Len(t)])

AllDigits(t) == Len(t) > 0 /\ \A i \in 1..Len(t) : t[i] \in Digits

(* float(t), in tenths, of a text written as digits with at most one
   decimal and an optional sign; Null for a text that is no number. *)
ParseFloat(t) ==
    LET neg == Len(t) > 0 /\ t[1] = "-"
        u == IF neg THEN Tail(t) ELSE t
        n == Len(u)
        sign == IF neg THEN -1 ELSE 1
    IN  IF AllDigits(u) THEN Num(sign * 10 * TextToNat(u))
        ELSE IF n >= 3 /\ u[n - 1] = "." /\ AllDigits(SubSeq(u, 1, n - 2))
                /\ u[n] \in Digits
        THEN Num(sign * (10 * TextToNat(SubSeq(u, 1, n - 2)) + DigitVal(u[n])))
        ELSE Null

(* repr of a float held in tenths, as DataFrame.to_csv writes it *)
FloatToText(x) ==
    LET a == IF x < 0 THEN -x ELSE x
        body == NatToText(a \div 10) \o <<".", DigitChar(a % 10)>>
    IN  IF x < 0 THEN <<"-">> \o body ELSE body

StartsWithAt(t, j, w) ==
    /\ j >= 1
    /\ j + Len(w) - 1 <= Len(t)
    /\ SubSeq(t, j, j + Len(w) - 1) = w

Victoria == <<"V", "i", "c", "t", "o", "r", "i", "a">>
Vic == <<"V", "i", "c">>
VIC == <<"V", "I", "C">>
WA == <<"W", "A">>
WesternAustralia == <<"W", "e", "s", "t", "e", "r", "n", " ",
                      "A", "u", "s", "t", "r", "a", "l", "i", "a">>

(* What the group of the state pattern matches at position j, <<>> when it
   does not match there: 2 or 3 capitals (3 when there are 3), else
   Victoria, else Vic, else Western Australia. *)
StateTokenAt(t, j) ==
    IF j + 1 <= Len(t) /\ t[j] \in Upper /\ t[j + 1] \in Upper
    THEN (IF j + 2 <= Len(t) /\ t[j + 2] \in Upper
          THEN SubSeq(t, j, j + 2) ELSE SubSeq(t, j, j + 1))
    ELSE IF StartsWithAt(t, j, Victoria) THEN Victoria
    ELSE IF StartsWithAt(t, j, Vic) THEN Vic
    ELSE IF StartsWithAt(t, j, WesternAustralia) THEN WesternAustralia
    ELSE <<>>

(* df["address"].str.extract(state pattern): the lazy prefix needs at least
   one character, so the group is the first token found from position 2. *)
ExtractState(address) ==
    IF IsNull(address) THEN Null
    ELSE LET t == address.s
             hits == { j \in 2..Len(t) : StateTokenAt(t, j) # <<>> }
         IN  IF hits = {} THEN Null
             ELSE Str(StateTokenAt(t, CHOOSE j \in hits : \A i \in hits : j <= i))

(* The postcode pattern on a text: the greedy prefix takes the last blank
   that is followed by 4 digits; <<>> when there is none. *)
PostcodeMatch(t) ==
    LET hits == { j \in 1..(Len(t) - 4) :
                    t[j] = " " /\ \A d \in 1..4 : t[j + d] \in Digits }
    IN  IF hits = {} THEN <<>>
        ELSE LET j == CHOOSE x \in hits : \A y \in hits : y <= x
             IN  SubSeq(t, j + 1, j + 4)

ExtractPostcode(address) ==
    IF IsNull(address) \/ PostcodeMatch(address.s) = <<>> THEN Null
    ELSE Str(PostcodeMatch(address.s))

(* .str.replace of Vic(toria)? by VIC, every occurrence *)
RECURSIVE ReplaceVic(_)
ReplaceVic(t) ==
    IF Len(t) = 0 THEN t
    ELSE IF StartsWithAt(t, 1, Victoria)
    THEN VIC \o ReplaceVic(SubSeq(t, Len(Victoria) + 1, Len(t)))
    ELSE IF StartsWithAt(t, 1, Vic)
    THEN VIC \o ReplaceVic(SubSeq(t, Len(Vic) + 1, Len(t)))
    ELSE <<t[1]>> \o ReplaceVic(Tail(t))

(* .str.replace(pat, rep), every occurrence of the literal pat *)
RECURSIVE ReplaceAll(_, _, _)
ReplaceAll(t, pat, rep) ==
    IF Len(t) < Len(pat) THEN t
    ELSE IF StartsWithAt(t, 1, pat)
    THEN rep \o ReplaceAll(SubSeq(t, Len(pat) + 1, Len(t)), pat, rep)
    ELSE <<t[1]>> \o ReplaceAll(Tail(t), pat, rep)

(* A normalisation that forgets the second replace. *)
NormaliseStateVicOnly(state) ==
    IF IsNull(state) THEN Null
    ELSE Str(ReplaceVic(state.s))

NormaliseState(state) ==
    IF IsNull(state) THEN Null
    ELSE Str(ReplaceAll(ReplaceVic(state.s), WesternAustralia, WA))

(* str.split(","): the pieces between the commas, in order *)
RECURSIVE SplitComma(_)
SplitComma(t) ==
    IF \E i \in 1..Len(t) : t[i] = ","
    THEN LET c == CHOOSE i \in 1..Len(t) :
                    t[i] = "," /\ \A j \in 1..(i - 1) : t[j] # ","
         IN  <<SubSeq(t, 1, c - 1)>> \o SplitComma(SubSeq(t, c + 1, Len(t)))
    ELSE <<t>>

(* str.strip(): blanks off both ends *)
RECURSIVE Strip(_)
Strip(t) ==
    IF Len(t) > 0 /\ t[1] = " " THEN Strip(Tail(t))
    ELSE IF Len(t) > 0 /\ t[Len(t)] = " " THEN Strip(SubSeq(t, 1, Len(t) - 1))
    ELSE t

(* ---- the raw table the transformer starts from ---- *)

Addr1 == <<"1", " ", "N", "S", "W", " ", "2", "0", "0", "0">>
Addr2 == <<"2", " ", "V", "i", "c">>
LatText == <<"-", "3", "7", ".", "8">>
LongLow == <<"4", "5", ".", "2">>
LongHigh == <<"1", "4", "5", ".", "2">>
LongJunk == <<"E">>
SvcList == <<"A", ",", " ", "B", ",", "C">>
SvcName == <<"s", "n">>
SvcUrl == <<"u", "1">>

RawRow(address, lat, long, svc) ==
    [service_name |-> SvcName, address |-> address, latitude |-> lat,
     longitude |-> long, services_offered |-> svc, details_url |-> SvcUrl]

(* Rows as DataScraper leaves them in the file (None is the empty field). *)
RawRowKinds ==
    { RawRow(Addr1, LatText, LongLow, SvcList),
      RawRow(Addr1, LatText, LongHigh, SvcList),
      RawRow(Addr2, LatText, LongLow, SvcList),
      RawRow(Addr1, <<>>, <<>>, <<>>),
      RawRow(Addr1, LatText, <<>>, Miscellaneous),
      RawRow(Addr1, LatText, LongJunk, SvcList) }

(* The i-th row of the file carries the clock of its scrape. *)
Stamp(kinds) ==
    [i \in 1..Len(kinds) |->
        [service_name |-> kinds[i].service_name, address |-> kinds[i].address,
         latitude |-> kinds[i].latitude, longitude |-> kinds[i].longitude,
         services_offered |-> kinds[i].services_offered,
         details_url |-> kinds[i].details_url, scrape_ts |-> i]]

(* ---- the geocoding service ---- *)

Cand1 == [lat |-> <<"-", "3", "3", ".", "8">>, lon |-> <<"1", "5", "1", ".", "2">>,
          display_name |-> <<"x", " ", "3", "0", "0", "0">>]
Cand2 == [lat |-> <<"-", "3", "7", ".", "7">>, lon |-> <<"4", "4", ".", "9">>,
          display_name |-> <<"y">>]

GeoResponses ==
    { [status |-> 500, data |-> <<>>],
      [status |-> 200, data |-> <<>>],
      [status |-> 200, data |-> <<Cand1>>],
      [status |-> 200, data |-> <<Cand2, Cand1>>] }

(* get_lat_long(address) on a response: the exception apply_lat_long_fn
   ends with ("none" when it returns coordinates).  A non-200 answer makes
   get_lat_long return a str, which coordinates["lat"] cannot index. *)
LatLongError(r) ==
    IF r.status # 200 THEN "TypeError"
    ELSE IF Len(r.data) = 0 THEN "IndexError"
    ELSE "none"

get_lat_long(r) ==
    [lat |-> ParseFloat(r.data[1].lat), long |-> ParseFloat(r.data[1].lon)]

(* get_postcode(address)[0] on a response. *)
PostcodeHits(r) == { i \in 1..Len(r.data) : PostcodeMatch(r.data[i].display_name) # <<>> }

PostcodeError(r) ==
    IF r.status = 200 /\ PostcodeHits(r) = {} THEN "TypeError" ELSE "none"

get_postcode0(r) ==
    IF r.status # 200 THEN Str(<<"E">>)
    ELSE LET i == CHOOSE x \in PostcodeHits(r) : \A y \in PostcodeHits(r) : x <= y
         IN  Str(PostcodeMatch(r.data[i].display_name))

(* ---- the steps of data_transformation ---- *)

(* pandas.read_csv: the empty field is NaN. *)
ReadCell(t) == IF t = <<>> THEN Null ELSE Str(t)

ReadCsvRow(file, i) ==
    [src |-> i,
     service_name |-> ReadCell(file[i].service_name),
     address |-> ReadCell(file[i].address),
     latitude |-> ReadCell(file[i].latitude),
     longitude |-> ReadCell(file[i].longitude),
     services_offered |-> ReadCell(file[i].services_offered),
     details_url |-> ReadCell(file[i].details_url),
     scrape_ts |-> file[i].scrape_ts,
     state |-> Null, postcode |-> Null, id |-> Null]

ReadCsv(file) == [i \in 1..Len(file) |-> ReadCsvRow(file, i)]

(* A column read_csv found no text in is float64: .str raises on it. *)
HasText(file, col) == \E i \in 1..Len(file) : file[i][col] # <<>>

(* A dedup that compares every column, scrape_ts too. *)
DedupKeyWithTs(r) == <<r.service_name, r.address, r.latitude, r.longitude,
                       r.services_offered, r.details_url, r.scrape_ts>>

(* df.drop(columns="scrape_ts") *)
DedupKey(r) == <<r.service_name, r.address, r.latitude, r.longitude,
                 r.services_offered, r.details_url>>

(* A dedup that keeps the last of equal rows. *)
RECURSIVE KeepLast(_, _)
KeepLast(rows, i) ==
    IF i > Len(rows) THEN <<>>
    ELSE IF \E j \in (i + 1)..Len(rows) : DedupKey(rows[j]) = DedupKey(rows[i])
    THEN KeepLast(rows, i + 1)
    ELSE <<rows[i]>> \o KeepLast(rows, i + 1)

RECURSIVE KeepFirst(_, _)
KeepFirst(rows, i) ==
    IF i > Len(rows) THEN <<>>
    ELSE IF \E j \in 1..(i - 1) : DedupKey(rows[j]) = DedupKey(rows[i])
    THEN KeepFirst(rows, i + 1)
    ELSE <<rows[i]>> \o KeepFirst(rows, i + 1)

(* drop_duplicates() keeps the first of equal rows; df.loc[df_unq.index] *)
DropDuplicates(rows) == KeepFirst(rows, 1)

NeedsCoords(r) == IsNull(r.latitude) \/ IsNull(r.longitude)

(* A backfill that fills only the field that is missing. *)
ApplyLatLongOnlyMissing(r, resp) ==
    IF NeedsCoords(r)
    THEN [r EXCEPT !.latitude = IF IsNull(@) THEN get_lat_long(resp).lat ELSE @,
                   !.longitude = IF IsNull(@) THEN get_lat_long(resp).long ELSE @]
    ELSE r

(* apply_lat_long_fn(row), resp being what the geocoder answers *)
ApplyLatLong(r, resp) ==
    IF NeedsCoords(r)
    THEN [r EXCEPT !.latitude = get_lat_long(resp).lat,
                   !.longitude = get_lat_long(resp).long]
    ELSE r

(* apply_postcode_function(row) *)
ApplyPostcode(r, resp) ==
    IF IsNull(r.postcode) THEN [r EXCEPT !.postcode = get_postcode0(resp)] ELSE r

(* Ids that restart from 1000 at every row. *)
ServiceIdConstant(i) == Str(<<"S", "V", "C">> \o NatToText(1000))

(* "SVC" + str(1000 + i), i the 0-based position *)
ServiceId(i) == Str(<<"S", "V", "C">> \o NatToText(1000 + i))

(* An explode that leaves the blanks around the elements. *)
RECURSIVE ExplodeNoStrip(_)
ExplodeNoStrip(rows) ==
    IF Len(rows) = 0 THEN <<>>
    ELSE LET r == Head(rows)
             parts == IF IsNull(r.services_offered) THEN <<>>
                      ELSE SplitComma(r.services_offered.s)
         IN  (IF IsNull(r.services_offered) THEN <<r>>
              ELSE [k \in 1..Len(parts) |->
                      [r EXCEPT !.services_offered = Str(parts[k])]])
             \o ExplodeNoStrip(Tail(rows))

(* str.split(","), explode, str.strip(): one row per list element, in list
   order; a row without a list stays one row with NaN. *)
RECURSIVE Explode(_)
Explode(rows) ==
    IF Len(rows) = 0 THEN <<>>
    ELSE LET r == Head(rows)
             parts == IF IsNull(r.services_offered) THEN <<>>
                      ELSE SplitComma(r.services_offered.s)
         IN  (IF IsNull(r.services_offered) THEN <<r>>
              ELSE [k \in 1..Len(parts) |->
                      [r EXCEPT !.services_offered = Str(Strip(parts[k]))]])
             \o Explode(Tail(rows))

(* pd.to_numeric(errors="coerce") of a cell *)
ToNumeric(c) ==
    CASE c.k = "num" -> c
      [] c.k = "str" -> ParseFloat(c.s)
      [] OTHER -> Null

(* A correction with the comparison the wrong way round. *)
FixLongitudeCellFlipped(c) ==
    IF c.k = "num" /\ c.n > 1000 THEN Num(c.n + 1000) ELSE c

(* lambda x: x + 100 if x < 100 else x (NaN < 100 is False) *)
FixLongitudeCell(c) ==
    IF c.k = "num" /\ c.n < 1000 THEN Num(c.n + 1000) ELSE c

(* DataFrame.to_csv: NaN is the empty field, a float its repr. *)
CsvOut(c) ==
    CASE c.k = "num" -> FloatToText(c.n)
      [] c.k = "str" -> c.s
      [] OTHER -> <<>>

ToCsvRow(r) ==
    [src |-> r.src, id |-> CsvOut(r.id), service_name |-> CsvOut(r.service_name),
     address |-> CsvOut(r.address), latitude |-> CsvOut(r.latitude),
     longitude |-> CsvOut(r.longitude), services_offered |-> CsvOut(r.services_offered),
     details_url |-> CsvOut(r.details_url), scrape_ts |-> r.scrape_ts,
     state |-> CsvOut(r.state), postcode |-> CsvOut(r.postcode)]

ToCsv(rows) == [i \in 1..Len(rows) |-> ToCsvRow(rows[i])]

(* An export that adds to the file that is there. *)
DataFrameToCsvAppending(file, rows) == file \o ToCsv(rows)

(* df_exploded.to_csv(path, index=False): mode w, the file is replaced. *)
DataFrameToCsv(file, rows) == ToCsv(rows)

OldCleanedRow ==
    [src |-> 0, id |-> <<"o", "l", "d">>, service_name |-> <<>>, address |-> <<>>,
     latitude |-> <<>>, longitude |-> <<>>, services_offered |-> <<>>,
     details_url |-> <<>>, scrape_ts |-> 0, state |-> <<>>, postcode |-> <<>>]

TransformInit ==
    /\ traw \in { Stamp(k) : k \in SeqsUpTo(RawRowKinds, MaxRows) }
    /\ tpc = "start"
    /\ df = <<>>
    /\ geoLog = <<>>
    /\ cleaned = <<OldCleanedRow>>
    /\ tErr = NoErr
    /\ run = 1
    /\ prevGeo = <<>>
    /\ prevCleaned = <<>>
    /\ CrawlIdle
    /\ ScrapeIdle
    /\ AddressIdle
    /\ PoolIdle

(* An exception leaves data_transformation; DataProcessingPipeline.main
   wraps it in CustomException and re-raises. *)
Raise(e) ==
    /\ tpc' = "failed"
    /\ tErr' = <<"CustomException", e>>

(* line 55: pd.read_csv(scraped_data_path) *)
ReadRaw ==
    /\ tpc = "start"
    /\ IF traw = <<>>
       THEN Raise("EmptyDataError") /\ df' = df
       ELSE tpc' = "read" /\ df' = ReadCsv(traw) /\ tErr' = tErr
    /\ UNCHANGED <<traw, geoLog, cleaned>>
    /\ UNCHANGED <<rerunVars, crawlVars, scrapeVars, addressVars, poolVars>>

(* lines 57-59 *)
Deduplicate ==
    /\ tpc = "read"
    /\ df' = DropDuplicates(df)
    /\ tpc' = "deduped"
    /\ UNCHANGED <<traw, geoLog, cleaned, tErr>>
    /\ UNCHANGED <<rerunVars, crawlVars, scrapeVars, addressVars, poolVars>>

(* The members of a set of row positions, in df order. *)
RECURSIVE InOrder(_)
InOrder(S) ==
    IF S = {} THEN <<>>
    ELSE LET m == CHOOSE x \in S : \A y \in S : x <= y
         IN  <<m>> \o InOrder(S \ {m})

(* The answer to the lookup of row i; a row that is not looked up has none. *)
RespAt(resp, i) == IF i \in DOMAIN resp THEN resp[i] ELSE [status |-> 0, data |-> <<>>]

GeoEntry(fn, r, resp) ==
    [fn |-> fn, src |-> r.src, address |-> r.address, resp |-> resp]

(* A backfill that swallows a failed lookup: the row stays as it was and
   the loop goes on. *)
BackfillCoordinatesSkippingErrors(resp) ==
    /\ tpc = "deduped"
    /\ LET need == InOrder({ i \in 1..Len(df) : NeedsCoords(df[i]) })
       IN  /\ geoLog' = geoLog \o
                  [i \in 1..Len(need) |->
                      GeoEntry("get_lat_long", df[need[i]], resp[need[i]])]
           /\ df' = [i \in 1..Len(df) |->
                       IF i \in DOMAIN resp /\ LatLongError(resp[i]) = "none"
                       THEN ApplyLatLong(df[i], resp[i])
                       ELSE df[i]]
    /\ tpc' = "coords"
    /\ tErr' = tErr
    /\ UNCHANGED <<traw, cleaned>>
    /\ UNCHANGED <<rerunVars, crawlVars, scrapeVars, addressVars, poolVars>>

(* lines 61-62: df.apply(apply_lat_long_fn, axis=1), row after row; resp is
   what the geocoder answers for each row that is looked up. *)
BackfillCoordinates(resp) ==
    /\ tpc = "deduped"
    /\ LET need == InOrder({ i \in 1..Len(df) : NeedsCoords(df[i]) })
           bad == { i \in 1..Len(need) : LatLongError(resp[need[i]]) # "none" }
           stop == IF bad = {} THEN Len(need) + 1
                   ELSE CHOOSE i \in bad : \A j \in bad : i <= j
           asked == SubSeq(need, 1, IF bad = {} THEN Len(need) ELSE stop)
       IN  /\ geoLog' = geoLog \o
                  [i \in 1..Len(asked) |->
                      GeoEntry("get_lat_long", df[asked[i]], resp[asked[i]])]
           /\ IF bad # {}
              THEN Raise(LatLongError(resp[need[stop]])) /\ df' = df
              ELSE /\ df' = [i \in 1..Len(df) |-> ApplyLatLong(df[i], RespAt(resp, i))]
                   /\ tpc' = "coords"
                   /\ tErr' = tErr
    /\ UNCHANGED <<traw, cleaned>>
    /\ UNCHANGED <<rerunVars, crawlVars, scrapeVars, addressVars, poolVars>>

CoordsStep ==
    /\ tpc = "deduped"
    /\ \E resp \in [{ i \in 1..Len(df) : NeedsCoords(df[i]) } -> GeoResponses] :
          BackfillCoordinates(resp)

(* lines 64-75: state and postcode from the address, state normalised *)
ExtractStatePostcode ==
    /\ tpc = "coords"
    /\ IF ~HasText(traw, "address")
       THEN Raise("AttributeError") /\ df' = df
       ELSE /\ df' = [i \in 1..Len(df) |->
                        [df[i] EXCEPT
                            !.state = NormaliseState(ExtractState(df[i].address)),
                            !.postcode = ExtractPostcode(df[i].address)]]
            /\ tpc' = "extracted"
            /\ tErr' = tErr
    /\ UNCHANGED <<traw, geoLog, cleaned>>
    /\ UNCHANGED <<rerunVars, crawlVars, scrapeVars, addressVars, poolVars>>

NeedsPostcode(r) == IsNull(r.postcode)

(* lines 77-78: df.apply(apply_postcode_function, axis=1) *)
BackfillPostcode(resp) ==
    /\ tpc = "extracted"
    /\ LET need == InOrder({ i \in 1..Len(df) : NeedsPostcode(df[i]) })
           bad == { i \in 1..Len(need) : PostcodeError(resp[need[i]]) # "none" }
           stop == IF bad = {} THEN Len(need) + 1
                   ELSE CHOOSE i \in bad : \A j \in bad : i <= j
           asked == SubSeq(need, 1, IF bad = {} THEN Len(need) ELSE stop)
       IN  /\ geoLog' = geoLog \o
                  [i \in 1..Len(asked) |->
                      GeoEntry("get_postcode", df[asked[i]], resp[asked[i]])]
           /\ IF bad # {}
              THEN Raise(PostcodeError(resp[need[stop]])) /\ df' = df
              ELSE /\ df' = [i \in 1..Len(df) |-> ApplyPostcode(df[i], RespAt(resp, i))]
                   /\ tpc' = "postcodes"
                   /\ tErr' = tErr
    /\ UNCHANGED <<traw, cleaned>>
    /\ UNCHANGED <<rerunVars, crawlVars, scrapeVars, addressVars, poolVars>>

PostcodeStep ==
    /\ tpc = "extracted"
    /\ \E resp \in [{ i \in 1..Len(df) : NeedsPostcode(df[i]) } -> GeoResponses] :
          BackfillPostcode(resp)

(* lines 80-86: the RangeIndex from 1000, as string, prefixed, made a column *)
AssignIds ==
    /\ tpc = "postcodes"
    /\ df' = [i \in 1..Len(df) |-> [df[i] EXCEPT !.id = ServiceId(i - 1)]]
    /\ tpc' = "keyed"
    /\ UNCHANGED <<traw, geoLog, cleaned, tErr>>
    /\ UNCHANGED <<rerunVars, crawlVars, scrapeVars, addressVars, poolVars>>

(* lines 88-91 *)
ExplodeServices ==
    /\ tpc = "keyed"
    /\ IF ~HasText(traw, "services_offered")
       THEN Raise("AttributeError") /\ df' = df
       ELSE df' = Explode(df) /\ tpc' = "exploded" /\ tErr' = tErr
    /\ UNCHANGED <<traw, geoLog, cleaned>>
    /\ UNCHANGED <<rerunVars, crawlVars, scrapeVars, addressVars, poolVars>>

(* lines 93-100: to_numeric on both coordinates; scrape_ts to a timestamp *)
CoerceTypes ==
    /\ tpc = "exploded"
    /\ df' = [i \in 1..Len(df) |->
                [df[i] EXCEPT !.latitude = ToNumeric(@), !.longitude = ToNumeric(@)]]
    /\ tpc' = "typed"
    /\ UNCHANGED <<traw, geoLog, cleaned, tErr>>
    /\ UNCHANGED <<rerunVars, crawlVars, scrapeVars, addressVars, poolVars>>

(* lines 102-105 *)
FixLongitude ==
    /\ tpc = "typed"
    /\ df' = [i \in 1..Len(df) |->
                [df[i] EXCEPT !.longitude = FixLongitudeCell(@)]]
    /\ tpc' = "fixed"
    /\ UNCHANGED <<traw, geoLog, cleaned, tErr>>
    /\ UNCHANGED <<rerunVars, crawlVars, scrapeVars, addressVars, poolVars>>

(* lines 109-114: to_csv overwrites the cleaned table *)
Persist ==
    /\ tpc = "fixed"
    /\ cleaned' = DataFrameToCsv(cleaned, df)
    /\ tpc' = "done"
    /\ UNCHANGED <<traw, df, geoLog, tErr>>
    /\ UNCHANGED <<rerunVars, crawlVars, scrapeVars, addressVars, poolVars>>

TransformNext ==
    \/ ReadRaw
    \/ Deduplicate
    \/ CoordsStep
    \/ ExtractStatePostcode
    \/ PostcodeStep
    \/ AssignIds
    \/ ExplodeServices
    \/ CoerceTypes
    \/ FixLongitude
    \/ Persist

SpecTransform == TransformInit /\ [][TransformNext]_vars

(* ---- the stage run a second time on the same raw table ---- *)

(* DataProcessingPipeline.main once more: a new DataProcessor on the files
   the first run left, the geocoder asked afresh. *)
RunAgain ==
    /\ tpc = "done"
    /\ run = 1
    /\ run' = 2
    /\ prevGeo' = geoLog
    /\ prevCleaned' = cleaned
    /\ tpc' = "start"
    /\ df' = <<>>
    /\ geoLog' = <<>>
    /\ UNCHANGED <<traw, cleaned, tErr>>
    /\ UNCHANGED <<crawlVars, scrapeVars, addressVars, poolVars>>

(* The geocoder answers the lookups of this run as it answered the same
   lookups (same function, same row) of the run before. *)
Replayed(fn, resp) ==
    \A i \in DOMAIN resp :
        \A e \in 1..Len(prevGeo) :
            (prevGeo[e].fn = fn /\ prevGeo[e].src = df[i].src) => resp[i] = prevGeo[e].resp

FirstRunCoords == run = 1 /\ CoordsStep

SecondRunCoords ==
    /\ run = 2
    /\ tpc = "deduped"
    /\ \E resp \in [{ i \in 1..Len(df) : NeedsCoords(df[i]) } -> GeoResponses] :
          Replayed("get_lat_long", resp) /\ BackfillCoordinates(resp)

FirstRunPostcodes == run = 1 /\ PostcodeStep

SecondRunPostcodes ==
    /\ run = 2
    /\ tpc = "extracted"
    /\ \E resp \in [{ i \in 1..Len(df) : NeedsPostcode(df[i]) } -> GeoResponses] :
          Replayed("get_postcode", resp) /\ BackfillPostcode(resp)

RerunNext ==
    \/ ReadRaw
    \/ Deduplicate
    \/ FirstRunCoords
    \/ SecondRunCoords
    \/ ExtractStatePostcode
    \/ FirstRunPostcodes
    \/ SecondRunPostcodes
    \/ AssignIds
    \/ ExplodeServices
    \/ CoerceTypes
    \/ FixLongitude
    \/ Persist
    \/ RunAgain

SpecRerun == TransformInit /\ [][RerunNext]_vars

(* ---- the stage run again after the scraper has run a second time ---- *)

(* The raw table after scrape_services has run once more over the same link
   table with clear_contents false, every page as before: write_to_csv has
   appended every record again, with the clock of the later scrape. *)
ScrapedTwice(file) ==
    file \o [i \in 1..Len(file) |-> [file[i] EXCEPT !.scrape_ts = Len(file) + i]]

(* The second scrape, then DataProcessingPipeline.main once more; the first
   run of the transformer has written its cleaned table. *)
ScrapeAndRunAgain ==
    /\ tpc = "done"
    /\ run = 1
    /\ run' = 2
    /\ prevGeo' = geoLog
    /\ prevCleaned' = cleaned
    /\ traw' = ScrapedTwice(traw)
    /\ tpc' = "start"
    /\ df' = <<>>
    /\ geoLog' = <<>>
    /\ UNCHANGED <<cleaned, tErr>>
    /\ UNCHANGED <<crawlVars, scrapeVars, addressVars, poolVars>>

RescrapeNext ==
    \/ ReadRaw
    \/ Deduplicate
    \/ FirstRunCoords
    \/ SecondRunCoords
    \/ ExtractStatePostcode
    \/ FirstRunPostcodes
    \/ SecondRunPostcodes
    \/ AssignIds
    \/ ExplodeServices
    \/ CoerceTypes
    \/ FixLongitude
    \/ Persist
    \/ ScrapeAndRunAgain

SpecRescrape == TransformInit /\ [][RescrapeNext]_vars

(* ---- claims about the transformer ---- *)

(* Two rows that agree on every column other than scrape_ts. *)
SameButTs(a, b) ==
    /\ a.service_name = b.service_name
    /\ a.address = b.address
    /\ a.latitude = b.latitude
    /\ a.longitude = b.longitude
    /\ a.services_offered = b.services_offered
    /\ a.details_url = b.details_url

(* C5: deduplication keeps a row exactly when no earlier row agrees with it
   on every column other than scrape_ts (so the first of each set of such
   rows, and every row that differs from all earlier ones), keeps it as it
   was, scrape_ts included, and keeps the rows in their original order. *)
C5_DedupKeepsFirstOccurrences ==
    [][(tpc = "read" /\ tpc' = "deduped") =>
          /\ \A i \in 1..Len(df) :
                (\E k \in 1..Len(df') : df'[k].src = i)
                    <=> ~\E j \in 1..(i - 1) : SameButTs(df[j], df[i])
          /\ \A k \in 1..Len(df') : df'[k] = df[df'[k].src]
          /\ \A k \in 1..(Len(df') - 1) : df'[k].src < df'[k + 1].src]_vars

C5_Witness ==
    /\ tpc = "deduped"
    /\ Len(traw) = 3 /\ Len(df) = 2
    /\ SameButTs(traw[1], traw[3]) /\ traw[1].scrape_ts # traw[3].scrape_ts
    /\ traw[1].address = Addr1 /\ traw[2].address = Addr2
    /\ traw[2].longitude = traw[1].longitude
    /\ traw[2].services_offered = traw[1].services_offered
    /\ df[1].src = 1 /\ df[1].scrape_ts = 1
    /\ df[2].src = 2

(* Entries the step under way adds to the geocoding log. *)
NewGeo == SubSeq(geoLog', Len(geoLog) + 1, Len(geoLog'))

(* C6: in the coordinate backfill a row with latitude and longitude both
   present is not looked up and keeps both; a row missing either one is
   looked up once, by its address, and both its fields are the first
   candidate of that one answer. *)
C6_BackfillSkipsPresentFillsBoth ==
    [][(tpc = "deduped" /\ tpc' \in {"coords", "failed"}) =>
          \A i \in 1..Len(df) :
              LET mine == { e \in 1..Len(NewGeo) : NewGeo[e].src = df[i].src }
              IN  IF ~IsNull(df[i].latitude) /\ ~IsNull(df[i].longitude)
                  THEN /\ mine = {}
                       /\ tpc' = "coords" =>
                            /\ df'[i].latitude = df[i].latitude
                            /\ df'[i].longitude = df[i].longitude
                  ELSE tpc' = "coords" =>
                         /\ Cardinality(mine) = 1
                         /\ \A e \in mine :
                              /\ NewGeo[e].fn = "get_lat_long"
                              /\ NewGeo[e].address = df[i].address
                              /\ df'[i].latitude = ParseFloat(NewGeo[e].resp.data[1].lat)
                              /\ df'[i].longitude = ParseFloat(NewGeo[e].resp.data[1].lon)]_vars

C6_Witness ==
    /\ tpc = "coords"
    /\ Len(df) = 2 /\ Len(geoLog) = 1
    /\ traw[1].latitude = LatText /\ traw[1].longitude = LongLow
    /\ traw[2].latitude = LatText /\ traw[2].longitude = <<>>
    /\ geoLog[1].src = 2
    /\ df[1].latitude = Str(LatText)
    /\ df[2].latitude = Num(-338) /\ df[2].longitude = Num(1512)

(* The deduplicated records, as positions in the raw table, and the rank
   (0, 1, 2, ...) of each among them. *)
Firsts == { i \in 1..Len(traw) : ~\E j \in 1..(i - 1) : SameButTs(traw[j], traw[i]) }

RankOf(i) == Cardinality({ j \in Firsts : j < i })

IdNumber(id) == TextToNat(SubSeq(id, 4, Len(id)))

(* Rows of the cleaned table that come from raw row i, in table order. *)
RowsOf(i) == SelectSeq(cleaned, LAMBDA r : r.src = i)

(* C7: in the cleaned table every row of the i-th deduplicated record has
   the id SVC followed by 1000 + i; ids of different records differ, their
   numbers grow strictly in record order and never fall along the table. *)
C7_IdsAreSvcPlusRank ==
    tpc = "done" =>
        /\ \A k \in 1..Len(cleaned) :
              /\ cleaned[k].src \in Firsts
              /\ cleaned[k].id = <<"S", "V", "C">> \o NatToText(1000 + RankOf(cleaned[k].src))
        /\ \A k, m \in 1..Len(cleaned) :
              /\ cleaned[k].src = cleaned[m].src => cleaned[k].id = cleaned[m].id
              /\ cleaned[k].src < cleaned[m].src =>
                    IdNumber(cleaned[k].id) < IdNumber(cleaned[m].id)
              /\ k <= m => IdNumber(cleaned[k].id) <= IdNumber(cleaned[m].id)

C7_Witness ==
    /\ tpc = "done"
    /\ Len(traw) = 3 /\ Cardinality(Firsts) = 2 /\ 3 \in Firsts
    /\ Len(cleaned) = 6
    /\ cleaned[3].id = <<"S", "V", "C", "1", "0", "0", "0">>
    /\ cleaned[4].id = <<"S", "V", "C", "1", "0", "0", "1">>

(* Every field of a cleaned row other than services_offered. *)
RestOf(r) == <<r.id, r.service_name, r.address, r.latitude, r.longitude,
               r.details_url, r.scrape_ts, r.state, r.postcode>>

(* C8: a record whose services_offered is a comma list of k elements is in
   the cleaned table as exactly k rows, the j-th carrying the j-th element
   without the blanks around it, all k equal in every other field, id
   included. *)
C8_OneRowPerListElement ==
    tpc = "done" =>
        \A i \in Firsts :
            traw[i].services_offered # <<>> =>
                LET parts == SplitComma(traw[i].services_offered)
                    rows == RowsOf(i)
                IN  /\ Len(rows) = Len(parts)
                    /\ \A j \in 1..Len(rows) :
                          /\ rows[j].services_offered = Strip(parts[j])
                          /\ rows[j].services_offered \in
                                {<<"A">>, <<"B">>, <<"C">>, Miscellaneous}
                          /\ RestOf(rows[j]) = RestOf(rows[1])

C8_Witness ==
    /\ tpc = "done"
    /\ traw[1].services_offered = <<"A", ",", " ", "B", ",", "C">>
    /\ Len(RowsOf(1)) = 3
    /\ cleaned[1].services_offered = <<"A">>
    /\ cleaned[2].services_offered = <<"B">>
    /\ cleaned[3].services_offered = <<"C">>
    /\ cleaned[1].id = cleaned[3].id

(* The run is over and every geocoding lookup it needed was answered: it
   wrote the cleaned table or it failed in the explosion step. *)
RanToExplosion ==
    \/ tpc = "done"
    \/ tpc = "failed" /\ tErr = <<"CustomException", "AttributeError">>

(* C9 as claimed: every deduplicated record is in the cleaned table, one
   whose services_offered is null as exactly one row with null
   services_offered. *)
C9_NullServicesSurviveAsOneRow ==
    RanToExplosion =>
        \A i \in Firsts :
            /\ Len(RowsOf(i)) >= 1
            /\ traw[i].services_offered = <<>> =>
                  /\ Len(RowsOf(i)) = 1
                  /\ RowsOf(i)[1].services_offered = <<>>

(* C10: the longitude correction adds 100 to every longitude below 100,
   leaves one of 100 or more as it is, leaves a null longitude null and
   changes no latitude (numbers are held in tenths). *)
C10_LongitudeBelow100Shifted ==
    [][(tpc = "typed" /\ tpc' = "fixed") =>
          /\ Len(df') = Len(df)
          /\ \A i \in 1..Len(df) :
                LET x == df[i].longitude
                    y == df'[i].longitude
                IN  /\ x.k \in {"null", "num"}
                    /\ x.k = "null" => y = Null
                    /\ (x.k = "num" /\ x.n < 1000) => y = Num(x.n + 1000)
                    /\ (x.k = "num" /\ x.n >= 1000) => y = x
                    /\ df'[i].latitude = df[i].latitude]_vars

C10_Witness ==
    /\ tpc = "fixed"
    /\ \E i, j, k \in 1..Len(df) :
          /\ traw[df[i].src].longitude = <<"4", "5", ".", "2">>
          /\ df[i].longitude = Num(1452)
          /\ traw[df[j].src].longitude = <<"1", "4", "5", ".", "2">>
          /\ df[j].longitude = Num(1452)
          /\ traw[df[k].src].longitude = LongJunk
          /\ df[k].longitude = Null

(* The first postcode match among the candidates of an answer, <<>> when
   no candidate's display name carries one. *)
FirstPostcodeMatch(data) ==
    LET hits == { c \in 1..Len(data) : PostcodeMatch(data[c].display_name) # <<>> }
    IN  IF hits = {} THEN <<>>
        ELSE PostcodeMatch(data[CHOOSE c \in hits : \A d \in hits : c <= d].display_name)

(* C12 as claimed: in the postcode backfill a row whose postcode was
   extracted from its address is not looked up and keeps that postcode; a
   row without one is looked up once, by its address, and its postcode is
   the first postcode match of the answer. *)
C12_PostcodeBackfillTakesFirstMatch ==
    [][(tpc = "extracted" /\ tpc' \in {"postcodes", "failed"}) =>
          \A i \in 1..Len(df) :
              LET mine == { e \in 1..Len(NewGeo) : NewGeo[e].src = df[i].src }
              IN  IF ~IsNull(df[i].postcode)
                  THEN /\ mine = {}
                       /\ tpc' = "postcodes" => df'[i].postcode = df[i].postcode
                  ELSE tpc' = "postcodes" =>
                         /\ Cardinality(mine) = 1
                         /\ \A e \in mine :
                              /\ NewGeo[e].fn = "get_postcode"
                              /\ NewGeo[e].address = df[i].address
                              /\ FirstPostcodeMatch(NewGeo[e].resp.data) # <<>>
                              /\ df'[i].postcode =
                                    Str(FirstPostcodeMatch(NewGeo[e].resp.data))]_vars

(* C19 as claimed: when data_transformation has completed, every postcode
   of the cleaned table is empty (null) or a text of exactly 4 digits. *)
C19_PostcodesAreFourDigits ==
    tpc = "done" =>
        \A k \in 1..Len(cleaned) :
            \/ cleaned[k].postcode = <<>>
            \/ /\ Len(cleaned[k].postcode) = 4
               /\ AllDigits(cleaned[k].postcode)

(***************************************************************************)
(*        State and postcode of one address (lines 64-75), in full         *)
(***************************************************************************)

MaxWords == 3

NSW == <<"N", "S", "W">>

(* The words addresses are made of. *)
Words == { <<"1">>, <<"S", "t">>, NSW, WA, Vic, Victoria, WesternAustralia,
           <<"2", "0", "0", "0">> }

RECURSIVE JoinWords(_)
JoinWords(ws) ==
    IF Len(ws) = 0 THEN <<>>
    ELSE IF Len(ws) = 1 THEN ws[1]
    ELSE ws[1] \o <<" ">> \o JoinWords(Tail(ws))

Addresses == { JoinWords(ws) : ws \in SeqsUpTo(Words, MaxWords) } \ {<<>>}

AddressInit ==
    /\ aAddress \in { Str(t) : t \in Addresses }
    /\ apc = "start"
    /\ aState = Null
    /\ aPostcode = Null
    /\ CrawlIdle
    /\ ScrapeIdle
    /\ TransformIdle
    /\ PoolIdle

(* lines 65-68 on one cell of the address column *)
ExtractOne ==
    /\ apc = "start"
    /\ aState' = ExtractState(aAddress)
    /\ aPostcode' = ExtractPostcode(aAddress)
    /\ apc' = "extracted"
    /\ UNCHANGED aAddress
    /\ UNCHANGED <<crawlVars, scrapeVars, transformVars, poolVars>>

(* lines 71-75 on one cell of the state column *)
NormaliseOne ==
    /\ apc = "extracted"
    /\ aState' = NormaliseState(aState)
    /\ apc' = "normalised"
    /\ UNCHANGED <<aAddress, aPostcode>>
    /\ UNCHANGED <<crawlVars, scrapeVars, transformVars, poolVars>>

AddressNext == ExtractOne \/ NormaliseOne

SpecAddress == AddressInit /\ [][AddressNext]_vars

(* ---- claims about the state of an address ---- *)

Contains(t, w) == \E j \in 1..Len(t) : StartsWithAt(t, j, w)

(* C11 as claimed: an address that contains Victoria or Vic has the state
   VIC, one that contains Western Australia has the state WA, and one that
   contains the abbreviation NSW has the state NSW. *)
C11_StateFollowsToken ==
    apc = "normalised" =>
        /\ Contains(aAddress.s, Vic) => aState = Str(VIC)
        /\ Contains(aAddress.s, WesternAustralia) => aState = Str(WA)
        /\ Contains(aAddress.s, NSW) => aState = Str(NSW)

CapsPair(t) == \E j \in 1..(Len(t) - 1) : t[j] \in Upper /\ t[j + 1] \in Upper

(* C20: the state derived from an address is null or a text of 2 to 3
   capital letters, never Vic, Victoria or Western Australia; it is null
   for an address without two adjacent capitals and without the words Vic
   and Western Australia. *)
C20_StateIsNullOrCode ==
    apc = "normalised" =>
        /\ \/ aState = Null
           \/ /\ aState.k = "str"
              /\ Len(aState.s) \in 2..3
              /\ \A j \in 1..Len(aState.s) : aState.s[j] \in Upper
        /\ aState \notin {Str(Vic), Str(Victoria), Str(WesternAustralia)}
        /\ (/\ ~CapsPair(aAddress.s)
            /\ ~Contains(aAddress.s, Vic)
            /\ ~Contains(aAddress.s, WesternAustralia)) => aState = Null

C20_Witness ==
    /\ apc = "normalised"
    /\ aAddress = Str(JoinWords(<<(<<"1">>), WesternAustralia, (<<"2", "0", "0", "0">>)>>))
    /\ aState = Str(WA)
    /\ aPostcode = Str(<<"2", "0", "0", "0">>)

(* ---- claims about the fields get_service_details extracts ---- *)

QMarker == <<"?", "q", "=">>

(* C13 as claimed: scraping a page (whose services block raises nothing)
   writes one row; its latitude and longitude are the two texts after the
   marker when the address anchor has a link target with the marker, and
   both null (the empty field) when the anchor is absent, has no link
   target, or has a link target without the marker. *)
C13_CoordinatesFromLinkOrNull ==
    [][\A page \in DetailPages :
          (ScrapeOne(FALSE, page) /\ ~(page.desc /\ page.title = "absent")) =>
              /\ Len(rawTable') = Len(rawTable) + 1
              /\ LET row == rawTable'[Len(rawTable')]
                 IN  IF page.anchor = "href" /\ Contains(page.href, QMarker)
                     THEN /\ row.latitude = <<"-", "3", "7", ".", "8">>
                          /\ row.longitude = <<"1", "4", "5", ".", "2">>
                     ELSE /\ row.latitude = <<>>
                          /\ row.longitude = <<>>]_vars

(* C14 as claimed: scraping a page (whose address anchor raises nothing)
   writes one row; its services_offered is the description of the last info
   block when the title of the block contains Services, Miscellaneous when
   there is a description and the title does not contain Services or is
   absent, and null (the empty field) when there is no description. *)
C14_ServicesOfferedByTitle ==
    [][\A page \in DetailPages :
          (/\ ScrapeOne(FALSE, page)
           /\ \/ page.anchor = "absent"
              \/ page.anchor = "href" /\ Contains(page.href, QMarker)) =>
              /\ Len(rawTable') = Len(rawTable) + 1
              /\ rawTable'[Len(rawTable')].services_offered =
                    IF ~page.desc THEN <<>>
                    ELSE IF page.title = "services" THEN DescText
                    ELSE Miscellaneous]_vars

(* ---- claims about running the transformer again ---- *)

(* C15: data_transformation never writes the raw table; the cleaned table
   it writes holds rows of this run only (nothing of what the file held
   before), and a second run on the same raw table whose lookups get the
   answers of the first run writes the same cleaned table as the first. *)
C15_RerunWritesSameCleanedTable ==
    [][/\ traw' = traw
       /\ (tpc = "fixed" /\ tpc' = "done") =>
             /\ \A k \in 1..Len(cleaned') : cleaned'[k].src \in 1..Len(traw)
             /\ (run = 2 /\ geoLog = prevGeo) => cleaned' = prevCleaned]_vars

C15_Witness ==
    /\ tpc = "done" /\ run = 2
    /\ geoLog = prevGeo
    /\ \E e, f \in 1..Len(geoLog) :
          geoLog[e].fn = "get_lat_long" /\ geoLog[f].fn = "get_postcode"
    /\ Len(cleaned) >= 4
    /\ cleaned = prevCleaned

(***************************************************************************)
(*      Either writing stage, run on its own over the file it finds        *)
(***************************************************************************)

StagesInit == CrawlInit \/ ScrapeInit

StagesNext ==
    \/ LinkExtractorInit
    \/ CrawlStep
    \/ DataScraperInit
    \/ ScrapeStep
    \/ ScrapeServicesReturn

SpecStages == StagesInit /\ [][StagesNext]_vars

(* C16: once a stage is constructed, with clear_contents its table holds
   only rows of the run (a link row of a page the run fetched, a raw row of
   a record the run completed, as many as it completed); without it the
   rows the file held before are a prefix of the table, unchanged and in
   order. *)
C16_ClearTruncatesElseAppends ==
    /\ cpc \in {"fetching", "done", "failed"} =>
          IF cClear
          THEN \A k \in 1..Len(linkTable) :
                  \E f \in 1..Len(fetchLog) :
                      /\ fetchLog[f].page = linkTable[k].page_url
                      /\ fetchLog[f].outcome = "ok"
          ELSE IsPrefix(linkBefore, linkTable)
    /\ spc \in {"looping", "done", "failed"} =>
          IF sClear
          THEN /\ Len(rawTable) = Cardinality(Completed)
               /\ \A k \in 1..Len(rawTable) :
                     /\ rawTable[k].details_url = sLinks[k].service_url
                     /\ rawTable[k].scrape_ts >= 1
          ELSE IsPrefix(rawBefore, rawTable)

C16_Witness ==
    /\ spc = "done"
    /\ sClear
    /\ rawBefore = <<OldRawRow>>
    /\ Len(rawTable) = 2
    /\ rawTable[1].details_url # OldUrl

(***************************************************************************)
(*   The fan-out script: scrape_all_service_details over a thread pool     *)
(***************************************************************************)

MaxWorkers == 2

Workers == 1..MaxWorkers

ServiceUrls == { <<"u", "1">>, <<"u", "2">> }

(* What scrape_service_details can meet on one url: the page as expected,
   SESSION.get raising, or a page without the element a find(...) expects
   (find returns None and .text raises). *)
ScrapeOutcomes == {"ok", "ConnectionError", "AttributeError"}

(* The service_details dict built from the page of a url; item is history:
   the work item that built it. *)
ServiceDetails(url, item) == [service_name |-> <<"n">> \o url, item |-> item]

(* An accumulation that keeps only the newest entry. *)
StoreEntry(list, entry) == <<entry>>

(* all_services.append(service_details): one bytecode-level call on the
   list, atomic under the interpreter lock. *)
AppendEntry(list, entry) == Append(list, entry)

PoolInit ==
    /\ all_service_links \in SeqsUpTo(ServiceUrls, MaxLinks)
    /\ all_services = <<>>
    /\ ppc = "start"
    /\ workQueue = <<>>
    /\ running = [w \in Workers |-> 0]
    /\ local = [w \in Workers |-> <<>>]
    /\ futures = <<>>
    /\ servicesCsv = <<>>
    /\ pErr = NoErr
    /\ CrawlIdle
    /\ ScrapeIdle
    /\ TransformIdle
    /\ AddressIdle

(* executor.map(scrape_service_details, all_service_links): one work item
   per element is submitted, in list order, before map returns. *)
ExecutorMap ==
    /\ ppc = "start"
    /\ workQueue' = [i \in 1..Len(all_service_links) |-> i]
    /\ futures' = [i \in 1..Len(all_service_links) |-> "pending"]
    /\ ppc' = "pool"
    /\ UNCHANGED <<all_service_links, all_services, running, local, servicesCsv, pErr>>
    /\ UNCHANGED <<crawlVars, scrapeVars, transformVars, addressVars>>

(* A free worker thread takes the oldest queued work item. *)
WorkerTake(w) ==
    /\ ppc = "pool"
    /\ running[w] = 0
    /\ workQueue # <<>>
    /\ running' = [running EXCEPT ![w] = Head(workQueue)]
    /\ workQueue' = Tail(workQueue)
    /\ UNCHANGED <<ppc, all_service_links, all_services, local, futures, servicesCsv, pErr>>
    /\ UNCHANGED <<crawlVars, scrapeVars, transformVars, addressVars>>

(* scrape_service_details, lines 55-91: the request and the extraction.  An
   exception ends the work item and is kept in its future. *)
WorkerScrape(w, outcome) ==
    /\ running[w] # 0
    /\ local[w] = <<>>
    /\ IF outcome = "ok"
       THEN /\ local' = [local EXCEPT ![w] =
                           <<ServiceDetails(all_service_links[running[w]], running[w])>>]
            /\ UNCHANGED <<running, futures>>
       ELSE /\ futures' = [futures EXCEPT ![running[w]] = outcome]
            /\ running' = [running EXCEPT ![w] = 0]
            /\ UNCHANGED local
    /\ UNCHANGED <<ppc, all_service_links, all_services, workQueue, servicesCsv, pErr>>
    /\ UNCHANGED <<crawlVars, scrapeVars, transformVars, addressVars>>

(* scrape_service_details, lines 93-94: the append and the return *)
WorkerAppend(w) ==
    /\ running[w] # 0
    /\ local[w] # <<>>
    /\ all_services' = AppendEntry(all_services, local[w][1])
    /\ futures' = [futures EXCEPT ![running[w]] = "done"]
    /\ running' = [running EXCEPT ![w] = 0]
    /\ local' = [local EXCEPT ![w] = <<>>]
    /\ UNCHANGED <<ppc, all_service_links, workQueue, servicesCsv, pErr>>
    /\ UNCHANGED <<crawlVars, scrapeVars, transformVars, addressVars>>

TakeStep == \E w \in Workers : WorkerTake(w)

ScrapeDetailsStep == \E w \in Workers, outcome \in ScrapeOutcomes : WorkerScrape(w, outcome)

AppendStep == \E w \in Workers : WorkerAppend(w)

(* The with block ends: shutdown(wait=True) returns when every work item
   has ended.  The iterator executor.map returned is dropped unread, so no
   future's exception is raised here; scrape_all_service_details returns. *)
ExecutorExit ==
    /\ ppc = "pool"
    /\ workQueue = <<>>
    /\ \A w \in Workers : running[w] = 0
    /\ ppc' = "joined"
    /\ UNCHANGED <<all_service_links, all_services, workQueue, running, local, futures,
                   servicesCsv, pErr>>
    /\ UNCHANGED <<crawlVars, scrapeVars, transformVars, addressVars>>

(* load_data() and the closing prints of __main__ *)
LoadData ==
    /\ ppc = "joined"
    /\ servicesCsv' = all_services
    /\ ppc' = "completed"
    /\ UNCHANGED <<all_service_links, all_services, workQueue, running, local, futures, pErr>>
    /\ UNCHANGED <<crawlVars, scrapeVars, transformVars, addressVars>>

PoolNext ==
    \/ ExecutorMap
    \/ TakeStep
    \/ ScrapeDetailsStep
    \/ AppendStep
    \/ ExecutorExit
    \/ LoadData

SpecPool == PoolInit /\ [][PoolNext]_vars

(* ---- claims about the fan-out script ---- *)

FailedItems == { t \in DOMAIN futures : futures[t] \notin {"pending", "done"} }

(* C17 as claimed: once scrape_service_details has raised in a worker the
   run does not reach load_data or its completion message, and it ends with
   that error. *)
C17_WorkerFailureIsFatal ==
    FailedItems # {} =>
        /\ ppc # "completed"
        /\ servicesCsv = <<>>
        /\ ppc = "joined" => pErr # NoErr

EntriesOf(list, t) == { k \in 1..Len(list) : list[k].item = t }

(* C18: all_services only ever grows at its end, and when the pool has
   ended with every call successful it holds exactly one entry per element
   of all_service_links, each the details of that element's page. *)
C18_OneEntryPerLinkAnyOrder ==
    [][/\ IsPrefix(all_services, all_services')
       /\ (ppc' = "joined" /\ \A t \in DOMAIN futures' : futures'[t] = "done") =>
             /\ Len(all_services') = Len(all_service_links)
             /\ \A t \in 1..Len(all_service_links) :
                   /\ Cardinality(EntriesOf(all_services', t)) = 1
                   /\ \A k \in EntriesOf(all_services', t) :
                         all_services'[k].service_name = <<"n">> \o all_service_links[t]]_vars

C18_Witness ==
    /\ ppc = "joined"
    /\ \A t \in DOMAIN futures : futures[t] = "done"
    /\ Len(all_service_links) = 3
    /\ all_service_links[1] = all_service_links[3]
    /\ all_service_links[1] # all_service_links[2]
    /\ Len(all_services) = 3
    /\ all_services[1].item = 2
    /\ all_services[2].item = 3

(* ---- claims about a failed coordinate lookup ---- *)

(* C21: once the geocoder has answered a coordinate lookup with a status
   other than 200, that lookup is the last one of the run, the run has
   failed with TypeError (wrapped in CustomException) at the caller, nothing
   further can happen and the cleaned table file holds what it held before
   the run. *)
C21_Non200CoordinateLookupAborts ==
    \A e \in 1..Len(geoLog) :
        (geoLog[e].fn = "get_lat_long" /\ geoLog[e].resp.status # 200) =>
            /\ e = Len(geoLog)
            /\ tpc = "failed"
            /\ tErr = <<"CustomException", "TypeError">>
            /\ cleaned = <<OldCleanedRow>>
            /\ ~ENABLED TransformNext

C21_Witness ==
    /\ tpc = "failed"
    /\ Len(geoLog) = 2
    /\ geoLog[1].fn = "get_lat_long" /\ geoLog[1].resp.status = 200
    /\ geoLog[2].fn = "get_lat_long" /\ geoLog[2].resp.status = 500
    /\ cleaned = <<OldCleanedRow>>

(* ---- claims about the raw table of two scrapes ---- *)

(* The raw table of the first scrape alone, seen from the second run. *)
FirstScrape == SubSeq(traw, 1, Len(traw) \div 2)

(* C22: when the raw table holds every record twice, the copies of the
   second scrape differing from the first only in scrape_ts, and the
   geocoder answers as it did for the raw table of the first scrape alone,
   data_transformation ends without an exception, having made the same
   lookups and written the same cleaned table, ids and scrape_ts included,
   as it did for the first scrape alone. *)
C22_SecondScrapeChangesNothing ==
    (run = 2 /\ tpc \in {"done", "failed"}) =>
        /\ Len(traw) = 2 * Len(FirstScrape)
        /\ \A i \in 1..Len(FirstScrape) :
              /\ SameButTs(traw[i], traw[Len(FirstScrape) + i])
              /\ traw[i].scrape_ts # traw[Len(FirstScrape) + i].scrape_ts
        /\ tpc = "done"
        /\ geoLog = prevGeo
        /\ cleaned = prevCleaned
        /\ \A k \in 1..Len(cleaned) :
              /\ cleaned[k].src <= Len(FirstScrape)
              /\ cleaned[k].scrape_ts = FirstScrape[cleaned[k].src].scrape_ts

C22_Witness ==
    /\ run = 2 /\ tpc = "done"
    /\ Len(traw) = 6
    /\ Cardinality(Firsts) = 2
    /\ Len(geoLog) >= 1
    /\ Len(cleaned) >= 4
    /\ cleaned = prevCleaned
    /\ cleaned[1].id = <<"S", "V", "C", "1", "0", "0", "0">>
    /\ cleaned[Len(cleaned)].id = <<"S", "V", "C", "1", "0", "0", "1">>

(* ---- claims about the link table during a crawl ---- *)

(* The number of cards of a page that are parsed before the first card
   that cannot be parsed (all of them when every card can). *)
LeadingGood(cards) ==
    Cardinality({ j \in 1..Len(cards) : \A i \in 1..j : cards[i] = "good" })

(* C23: during a crawl every step leaves the rows of the link table as
   they were and in place, adding rows only at the end; the fetch of a page
   adds one row per card parsed before the first failing one (none when the
   request itself fails), each with the page's number, which is 1 for the
   start page and one more for every next link followed; a crawl that has
   aborted changes nothing further. *)
C23_LinkTableOnlyGrows ==
    [][/\ cpc = "fetching" => IsPrefix(linkTable, linkTable')
       /\ cpc = "failed" => linkTable' = linkTable
       /\ \A outcome \in FetchOutcomes, cards \in SeqsUpTo(CardKinds, MaxCards) :
             GetAllServiceLinks(outcome, cards) =>
                 LET n == IF outcome = "ok" THEN LeadingGood(cards) ELSE 0
                 IN  /\ Len(linkTable') = Len(linkTable) + n
                     /\ \A j \in 1..n :
                           LET row == linkTable'[Len(linkTable) + j]
                           IN  /\ row.page_number = Len(fetchLog) + 1
                               /\ row.page_url = curPage
                               /\ row.service_url = <<curPage, j>>
                     /\ (outcome = "transport" \/ (outcome = "ok" /\ n < Len(cards)))
                           => cpc' = "failed"]_vars

C23_Witness ==
    /\ cpc = "failed"
    /\ linkStart = <<>>
    /\ Len(fetchLog) = 2
    /\ fetchLog[2].badCard
    /\ Len(linkTable) = 3
    /\ linkTable[1].page_number = 1 /\ linkTable[2].page_number = 1
    /\ linkTable[3].page_number = 2 /\ linkTable[3].page_url = 2

====
